---- MODULE Spec2Model ----
(***************************************************************************)
(* Model of scripts/goodreads.py: the title parser, the shelf normaliser   *)
(* and the frontmatter reconciler driven by main's shelf/entry loop.       *)
(*                                                                         *)
(* Python strings are sequences of one-character strings, so that split,   *)
(* replace, strip, startswith and the regular expressions are computed     *)
(* character by character as the interpreter does.                         *)
(***************************************************************************)
EXTENDS Integers, Sequences, FiniteSets, TLC

VARIABLES
    \* --- get_clean_shelf harness
    shelf_in, shelf_out, shelf_out2, spc,
    \* --- get_clean_book_info harness
    raw_title, parsed, tpc,
    \* --- main / process_book_entry / update_existing_file / create_new_file
    files, pc, shelf_idx, entry_idx, feed_len, attempted, created, last

vars == <<shelf_in, shelf_out, shelf_out2, spc, raw_title, parsed, tpc,
          files, pc, shelf_idx, entry_idx, feed_len, attempted, created, last>>

shelfVars == <<shelf_in, shelf_out, shelf_out2, spc>>
titleVars == <<raw_title, parsed, tpc>>
runVars   == <<files, pc, shelf_idx, entry_idx, feed_len, attempted, created, last>>

(***************************************************************************)
(* Bounds                                                                  *)
(***************************************************************************)
MaxShelfSuffix == 2
MaxNameLen     == 3
NumShelves     == 2
MaxEntries     == 2
MaxInitNotes   == 1

(***************************************************************************)
(* Python str primitives                                                   *)
(***************************************************************************)
Whitespace == {" ", "\t", "\n", "\r", "\f"}
Digits     == {"0", "1", "2", "3", "4", "5", "6", "7", "8", "9"}

\* str.startswith
StartsWith(s, prefix) ==
    /\ Len(s) >= Len(prefix)
    /\ SubSeq(s, 1, Len(prefix)) = prefix

\* the membership test  sub in s  on strings
Contains(s, sub) ==
    \E i \in 1..(Len(s) - Len(sub) + 1) : SubSeq(s, i, i + Len(sub) - 1) = sub

\* str.find: first index (1-based) at or after `from` where sub occurs, 0 if none
Find(s, sub, from) ==
    LET hits == {i \in from..(Len(s) - Len(sub) + 1) :
                    SubSeq(s, i, i + Len(sub) - 1) = sub}
    IN  IF hits = {} THEN 0 ELSE CHOOSE i \in hits : \A j \in hits : i <= j

\* str.replace(old, new): non-overlapping occurrences, left to right;
\* an empty `old` matches between all characters.
RECURSIVE ReplaceFrom(_, _, _, _)
ReplaceFrom(s, old, new, from) ==
    IF Len(old) = 0
    THEN IF from > Len(s) THEN new
         ELSE new \o <<s[from]>> \o ReplaceFrom(s, old, new, from + 1)
    ELSE LET i == Find(s, old, from)
         IN  IF i = 0 THEN SubSeq(s, from, Len(s))
             ELSE SubSeq(s, from, i - 1) \o new
                  \o ReplaceFrom(s, old, new, i + Len(old))

Replace(s, old, new) == ReplaceFrom(s, old, new, 1)

\* str.strip()
Strip(s) ==
    LET keep == {i \in 1..Len(s) : s[i] \notin Whitespace}
    IN  IF keep = {} THEN <<>>
        ELSE SubSeq(s, CHOOSE i \in keep : \A j \in keep : i <= j,
                       CHOOSE i \in keep : \A j \in keep : i >= j)

\* str.split(sep)[1] for a one-character sep that occurs in s:
\* the text between the first and the second occurrence (or the end)
SplitSecond(s, sep) ==
    LET i == Find(s, sep, 1)
        j == Find(s, sep, i + 1)
    IN  IF j = 0 THEN SubSeq(s, i + 1, Len(s)) ELSE SubSeq(s, i + 1, j - 1)

(***************************************************************************)
(* get_clean_shelf                                                         *)
(***************************************************************************)
s_to_read  == <<"t", "o", "-", "r", "e", "a", "d">>
s_read     == <<"r", "e", "a", "d">>
s_to_read_ == s_to_read \o <<"-">>
s_read_    == s_read \o <<"-">>

\* a slip that drops the trailing hyphen of the first prefix
get_clean_shelf_NoHyphen(shelf) ==
    IF StartsWith(shelf, s_to_read) THEN s_to_read
    ELSE IF StartsWith(shelf, s_read_) THEN s_read
    ELSE shelf

get_clean_shelf(shelf) ==
    IF StartsWith(shelf, s_to_read_) THEN s_to_read
    ELSE IF StartsWith(shelf, s_read_) THEN s_read
    ELSE shelf

(***************************************************************************)
(* remove_punctuation                                                      *)
(***************************************************************************)
\* string.punctuation without "-", plus the three characters of the
\* mis-decoded curly apostrophe that the character class also lists
\* (the backquote and the non-ASCII characters are written by code point)
PunctuationClass ==
    {"!", "\"", "#", "$", "%", "&", "'", "(", ")", "*", "+", ",", ".", "/",
     ":", ";", "<", "=", ">", "?", "@", "[", "\\", "]", "^", "_", "U+0060", "{",
     "|", "}", "~", "U+00E2", "U+20AC", "U+2122"}

\* string.punctuation (the backquote written by code point)
AsciiPunctuation ==
    {"!", "\"", "#", "$", "%", "&", "'", "(", ")", "*", "+", ",", "-", ".",
     "/", ":", ";", "<", "=", ">", "?", "@", "[", "\\", "]", "^", "_", "U+0060",
     "{", "|", "}", "~"}

\* re.sub(class, "", s)
RECURSIVE DeleteClass(_, _)
DeleteClass(s, class) ==
    IF s = <<>> THEN <<>>
    ELSE (IF Head(s) \in class THEN <<>> ELSE <<Head(s)>>)
         \o DeleteClass(Tail(s), class)

\* a character class that forgets the colon
remove_punctuation_KeepColon(input_string) ==
    DeleteClass(Replace(input_string, <<"&">>, <<"a", "n", "d">>),
                PunctuationClass \ {":"})

remove_punctuation(input_string) ==
    DeleteClass(Replace(input_string, <<"&">>, <<"a", "n", "d">>),
                PunctuationClass)

(***************************************************************************)
(* get_subtitle                                                            *)
(***************************************************************************)
get_subtitle(title) == Strip(SplitSecond(title, ":"))

(***************************************************************************)
(* get_series_info                                                         *)
(***************************************************************************)
\* \d+
IsDigits(s) == Len(s) >= 1 /\ \A i \in 1..Len(s) : s[i] \in Digits

\* the number sub-pattern of patterns[k]:
\*   1: \d+     2: \d+[-\.]\d+     3: \d+\.\d+-\d+
NumberMatches(k, s) ==
    CASE k = 1 -> IsDigits(s)
      [] k = 2 -> \E i \in 2..(Len(s) - 1) :
                     /\ IsDigits(SubSeq(s, 1, i - 1))
                     /\ s[i] \in {"-", "."}
                     /\ IsDigits(SubSeq(s, i + 1, Len(s)))
      [] k = 3 -> \E i \in 2..(Len(s) - 3) : \E j \in (i + 2)..(Len(s) - 1) :
                     /\ IsDigits(SubSeq(s, 1, i - 1))
                     /\ s[i] = "."
                     /\ IsDigits(SubSeq(s, i + 1, j - 1))
                     /\ s[j] = "-"
                     /\ IsDigits(SubSeq(s, j + 1, Len(s)))

\* `.` matches every character but the newline
DotPlus(s) == Len(s) >= 1 /\ \A i \in 1..Len(s) : s[i] # "\n"

\* The ways  .+ \(((.+?),? #(NUM))\)  matches the whole title: <<p, g>> is
\* the length of the leading .+ and of group 2.
PatternSplits(k, title) ==
    LET n == Len(title)
    IN  {pg \in (1..n) \X (1..n) :
            LET p == pg[1]
                g == pg[2]
                q == p + 3 + g                     \* first position after group 2
                r == IF q <= n /\ title[q] = "," THEN q + 1 ELSE q
            IN  /\ r + 3 <= n
                /\ DotPlus(SubSeq(title, 1, p))
                /\ title[p + 1] = " "
                /\ title[p + 2] = "("
                /\ DotPlus(SubSeq(title, p + 3, p + 2 + g))
                /\ title[r] = " "
                /\ title[r + 1] = "#"
                /\ NumberMatches(k, SubSeq(title, r + 2, n - 1))
                /\ title[n] = ")"}

\* re.fullmatch(patterns[k], title) is not None
FullMatch(k, title) == PatternSplits(k, title) # {}

\* The split the backtracking matcher returns: the greedy .+ as long as
\* possible, then the lazy group 2 as short as possible.
PreferredSplit(S) ==
    CHOOSE pg \in S : \A o \in S :
        \/ pg[1] > o[1]
        \/ pg[1] = o[1] /\ pg[2] <= o[2]

MatchSplit(k, title) == PreferredSplit(PatternSplits(k, title))

\* match.group(1..3) of the match with split pg (prefix is the leading .+)
GroupsAt(title, pg) ==
    LET n  == Len(title)
        q  == pg[1] + 3 + pg[2]
        r  == IF title[q] = "," THEN q + 1 ELSE q
    IN  [g1 |-> SubSeq(title, pg[1] + 3, n - 1),
         g2 |-> SubSeq(title, pg[1] + 3, pg[1] + 2 + pg[2]),
         g3 |-> SubSeq(title, r + 2, n - 1),
         prefix |-> SubSeq(title, 1, pg[1])]

MatchGroups(k, title) == GroupsAt(title, MatchSplit(k, title))

\* the index of the first pattern that matches, 0 if none
FirstPattern(title) ==
    IF FullMatch(1, title) THEN 1
    ELSE IF FullMatch(2, title) THEN 2
    ELSE IF FullMatch(3, title) THEN 3
    ELSE 0

\* lines 99-102: the triple built from the groups m of the match
SeriesOfMatch(m) ==
    [series      |-> <<"(">> \o Strip(m.g1) \o <<")">>,
     series_name |-> Strip(remove_punctuation(m.g2)),
     series_num  |-> Strip(m.g3)]

\* lines 96-105 once the first matching pattern k is known
SeriesOfPattern(title, k) ==
    IF k = 0
    THEN [series |-> <<>>, series_name |-> <<>>, series_num |-> <<>>]
    ELSE SeriesOfMatch(MatchGroups(k, title))

get_series_info(title) == SeriesOfPattern(title, FirstPattern(title))

(***************************************************************************)
(* get_clean_book_info                                                     *)
(***************************************************************************)
\* line 112: book_title.replace(series, "") with the triple s of get_series_info
RemoveSeries(book_title, s) ==
    [book_title  |-> Replace(book_title, s.series, <<>>),
     series_name |-> s.series_name,
     series_num  |-> s.series_num]

\* lines 110-114: the series step
SeriesStep(book_title) ==
    IF Contains(book_title, <<"(">>) /\ Contains(book_title, <<"#">>)
    THEN RemoveSeries(book_title, get_series_info(book_title))
    ELSE [book_title |-> book_title, series_name |-> <<>>, series_num |-> <<>>]

\* lines 118, 122-123: the subtitle removed, punctuation stripped, trimmed
RemoveSubtitle(book_title, subtitle) ==
    [title    |-> Strip(remove_punctuation(Replace(book_title, subtitle, <<>>))),
     subtitle |-> subtitle]

\* lines 116-123: the subtitle step, punctuation stripping and the final trim
SubtitleStep(book_title) ==
    IF Contains(book_title, <<":">>)
    THEN RemoveSubtitle(book_title, get_subtitle(book_title))
    ELSE [title |-> Strip(remove_punctuation(book_title)), subtitle |-> <<>>]

\* line 123: the returned tuple, from the results s and t of the two steps
CleanInfo(s, t) ==
    [title         |-> t.title,
     subtitle      |-> t.subtitle,
     series_name   |-> s.series_name,
     series_number |-> s.series_num]

AfterSeriesStep(s) == CleanInfo(s, SubtitleStep(s.book_title))

get_clean_book_info(book_title) == AfterSeriesStep(SeriesStep(book_title))

(***************************************************************************)
(* Inputs of the pure functions                                            *)
(***************************************************************************)
SeqsUpTo(A, n) == UNION {[1..k -> A] : k \in 0..n}

\* shelf identifiers: a stem followed by a short suffix
ShelfStems ==
    {<<>>, s_to_read, s_read, <<"t", "o", "-">>, <<"r", "e", "a">>,
     <<"c", "u", "r", "r", "e", "n", "t", "l", "y", "-", "r", "e", "a", "d", "i", "n", "g">>,
     <<"u", "n", "r", "e", "a", "d">>}
ShelfSuffixes == SeqsUpTo({"-", "a", "r"}, MaxShelfSuffix)
ShelfInputs   ==
    {st \o su : st \in ShelfStems, su \in ShelfSuffixes}
    \cup {s_to_read_ \o <<"m", "y", "s", "t", "e", "r", "y">>,
          s_read_ \o <<"2", "0", "2", "4">>}

\* raw titles: a short name, optionally followed by a series parenthetical
\* " (" series sep "#" number ")" tail
NameAlphabet == {"a", "b", ":", " ", "&"}
Names        == SeqsUpTo(NameAlphabet, MaxNameLen) \ {<<>>}
SeriesTexts  == {<<"s">>, <<" ", "s">>, <<"s", "&", "t">>}
SeriesSeps   == {<<",", " ">>, <<" ">>, <<",">>}
SeriesNums   == {<<"1">>, <<"1", "2">>, <<"1", "-", "3">>, <<"0", ".", "1">>,
                 <<"0", ".", "1", "-", "4">>, <<"1", "-">>, <<"x">>}
SeriesTails  == {<<>>, <<" ">>}
Parentheticals ==
    {<<" ", "(">> \o st \o sp \o <<"#">> \o nu \o <<")">> \o tl :
        st \in SeriesTexts, sp \in SeriesSeps, nu \in SeriesNums, tl \in SeriesTails}

\* titles quoted in the documentation and a few longer shapes
t_Foundation == <<"F", "o", "u", "n", "d", "a", "t", "i", "o", "n">>
ExampleTitles ==
    {t_Foundation \o <<" ", "(">> \o t_Foundation \o <<",", " ", "#", "1", ")">>,
     <<"B", "o", "o", "k", ":", " ", "A", " ", "S", "u", "b", "t", "i", "t", "l", "e">>,
     <<"A", ":", " ", "B", ":", " ", "C">>,
     <<"a", "a", "b", "b", ":", " ", "a", "b">>,
     <<"D", "o", "g", "'", "s", " ", "L", "i", "f", "e">>,
     <<"a", " ", "(", "b", ",", " ", "#", "1", ")", " ", "(", "c", ",", " ", "#", "2", ")">>,
     <<"a", ":", " ", "b", " ", "(", "s", " ", "#", "1", ",", " ", "#", "2", ")">>}

TitleInputs ==
    Names \cup {n \o pa : n \in Names, pa \in Parentheticals} \cup ExampleTitles

NoParse == [title |-> <<>>, subtitle |-> <<>>, series_name |-> <<>>,
            series_number |-> <<>>]

(***************************************************************************)
(* Harness of get_clean_shelf: normalise a shelf, then normalise the       *)
(* result again (generate_metadata line 137 on every entry of every run).  *)
(***************************************************************************)
ShelfIdle == shelf_in = <<>> /\ shelf_out = <<>> /\ shelf_out2 = <<>> /\ spc = "idle"
TitleIdle == raw_title = <<>> /\ parsed = NoParse /\ tpc = "idle"
RunIdle   ==
    /\ files = <<>> /\ pc = "idle" /\ shelf_idx = 0 /\ entry_idx = 0
    /\ feed_len = <<>> /\ attempted = <<>> /\ created = <<>> /\ last = <<>>

InitShelf ==
    /\ shelf_in \in ShelfInputs
    /\ shelf_out = <<>> /\ shelf_out2 = <<>> /\ spc = "input"
    /\ TitleIdle /\ RunIdle

CleanShelf ==
    /\ spc = "input"
    /\ shelf_out' = get_clean_shelf(shelf_in)
    /\ spc' = "cleaned"
    /\ UNCHANGED <<shelf_in, shelf_out2, titleVars, runVars>>

CleanShelfAgain ==
    /\ spc = "cleaned"
    /\ shelf_out2' = get_clean_shelf(shelf_out)
    /\ spc' = "recleaned"
    /\ UNCHANGED <<shelf_in, shelf_out, titleVars, runVars>>

NextShelf == CleanShelf \/ CleanShelfAgain
SpecShelf == InitShelf /\ [][NextShelf]_vars

(***************************************************************************)
(* Harness of get_clean_book_info (generate_metadata line 138)             *)
(***************************************************************************)
InitTitle ==
    /\ raw_title \in TitleInputs
    /\ parsed = NoParse /\ tpc = "input"
    /\ ShelfIdle /\ RunIdle

ParseTitle ==
    /\ tpc = "input"
    /\ parsed' = get_clean_book_info(raw_title)
    /\ tpc' = "parsed"
    /\ UNCHANGED <<raw_title, shelfVars, runVars>>

NextTitle == ParseTitle
SpecTitle == InitTitle /\ [][NextTitle]_vars

(***************************************************************************)
(* Values, YAML scalars and note files                                     *)
(*                                                                         *)
(* A Python value is <<type, text>> with type in int, bool, str, null and  *)
(* text its characters.  A note file is [head, yaml, fm, body]: head is    *)
(* its first line (empty for an empty file), yaml tells whether the fenced *)
(* block parses to a mapping, to a scalar, or not at all, fm maps each     *)
(* frontmatter key to the scalar written for it, <<style, text>>, and body *)
(* is the text after the closing fence.                                    *)
(***************************************************************************)
c_true  == <<"t", "r", "u", "e">>
c_false == <<"f", "a", "l", "s", "e">>
c_fence == <<"-", "-", "-">>

PyInt(t)  == <<"int", t>>
PyStr(t)  == <<"str", t>>
PyBool(t) == <<"bool", t>>
PyNone    == <<"null", <<>>>>

\* the implicit resolver of a plain YAML scalar
yaml_resolve(t) ==
    IF t \in {c_true, c_false} THEN PyBool(t)
    ELSE IF IsDigits(t) THEN PyInt(t)
    ELSE IF t \in {<<>>, <<"~">>, <<"n", "u", "l", "l">>} THEN PyNone
    ELSE PyStr(t)

\* yaml.safe_load of one scalar
yaml_load_scalar(sc) == IF sc[1] = "plain" THEN yaml_resolve(sc[2]) ELSE PyStr(sc[2])

\* yaml.dump of one value: a string that would resolve to another type is quoted
yaml_dump_scalar(v) ==
    IF v[1] = "str"
    THEN IF yaml_resolve(v[2]) = PyStr(v[2]) THEN <<"plain", v[2]>> ELSE <<"quoted", v[2]>>
    ELSE IF v[1] = "null" THEN <<"plain", <<"n", "u", "l", "l">>>>
    ELSE <<"plain", v[2]>>

yaml_safe_load(fm) == [k \in DOMAIN fm |-> yaml_load_scalar(fm[k])]
yaml_dump(d)       == [k \in DOMAIN d |-> yaml_dump_scalar(d[k])]

\* Python ==, where True == 1 and False == 0
PyEq(x, y) ==
    \/ x = y
    \/ {x, y} = {PyBool(c_true), PyInt(<<"1">>)}
    \/ {x, y} = {PyBool(c_false), PyInt(<<"0">>)}

(***************************************************************************)
(* read_frontmatter                                                        *)
(***************************************************************************)
NoFrontmatter == [kind |-> "none", map |-> <<>>]

\* a reader that parses whatever follows the first line
read_frontmatter_NoFenceCheck(note) ==
    IF note.yaml = "invalid" THEN [kind |-> "yaml_error", map |-> <<>>]
    ELSE IF note.yaml = "scalar" THEN [kind |-> "scalar", map |-> <<>>]
    ELSE IF DOMAIN note.fm = {} THEN NoFrontmatter
    ELSE [kind |-> "map", map |-> yaml_safe_load(note.fm)]

\* kind: none (None is returned), map (a dict), scalar (safe_load returns a
\* non-mapping), yaml_error (safe_load raises yaml.YAMLError)
read_frontmatter(note) ==
    IF note.head = <<>> \/ Strip(note.head) # c_fence THEN NoFrontmatter
    ELSE IF note.yaml = "invalid" THEN [kind |-> "yaml_error", map |-> <<>>]
    ELSE IF note.yaml = "scalar" THEN [kind |-> "scalar", map |-> <<>>]
    ELSE IF DOMAIN note.fm = {} THEN NoFrontmatter
    ELSE [kind |-> "map", map |-> yaml_safe_load(note.fm)]

(***************************************************************************)
(* dict_diff                                                               *)
(***************************************************************************)
\* lines 49-50: k.replace("-", "_") on every key
NormKey(k) == Replace(k, <<"-">>, <<"_">>)
NormKeys(d) ==
    [nk \in {NormKey(k) : k \in DOMAIN d} |->
        d[CHOOSE k \in DOMAIN d : NormKey(k) = nk]]

\* lines 52-57: vals[v] if isinstance(v, str) and v in vals else v
Coerce(v) == IF v[1] = "str" /\ v[2] \in {c_true, c_false} THEN PyBool(v[2]) ELSE v
CoerceVals(d) == [k \in DOMAIN d |-> Coerce(d[k])]

Normalize(d) == CoerceVals(NormKeys(d))

\* lines 59-73, on the normalised dictionaries
DiffOfNormalized(na, nb) ==
    [only_in_a |-> [k \in DOMAIN na \ DOMAIN nb |-> na[k]],
     only_in_b |-> [k \in DOMAIN nb \ DOMAIN na |-> nb[k]],
     different_values |->
         [k \in {x \in DOMAIN na \cap DOMAIN nb : ~PyEq(na[x], nb[x])} |->
             <<na[k], nb[k]>>]]

dict_diff(a, b) == DiffOfNormalized(Normalize(a), Normalize(b))

(***************************************************************************)
(* generate_metadata                                                       *)
(***************************************************************************)
k_rating  == <<"r", "a", "t", "i", "n", "g">>
k_re_read == <<"r", "e", "_", "r", "e", "a", "d">>
k_status  == <<"s", "t", "a", "t", "u", "s">>
k_book_description ==
    <<"b", "o", "o", "k", "_", "d", "e", "s", "c", "r", "i", "p", "t", "i", "o", "n">>
c_re_read == <<"r", "e", "-", "r", "e", "a", "d">>

\* int(entry.user_rating) if int(entry.user_rating) > 0 else ""
RatingOf(user_rating) ==
    IF \A i \in 1..Len(user_rating) : user_rating[i] = "0"
    THEN PyStr(<<>>) ELSE PyInt(user_rating)

\* ok is FALSE when int(entry.user_rating) raises ValueError.  Of the
\* fifteen fields the record keeps one of each kind: an integer (rating), a
\* string flag (re_read), a string derived from the shelf (status) and the
\* description.
generate_metadata(entry, shelf) ==
    IF ~IsDigits(entry.user_rating)
    THEN [ok |-> FALSE, title |-> <<>>, metadata |-> <<>>]
    ELSE [ok |-> TRUE,
          title |-> get_clean_book_info(entry.title).title,
          metadata |->
              (k_rating :> RatingOf(entry.user_rating))
              @@ (k_re_read :> PyStr(IF Contains(entry.user_shelves, c_re_read)
                                   THEN c_true ELSE c_false))
              @@ (k_status :> PyStr(get_clean_shelf(shelf)))
              @@ (k_book_description :> PyStr(entry.book_description))]

(***************************************************************************)
(* The two templates (templates/template-book-new.md and                   *)
(* templates/template-book-update.md): a fenced YAML block, then the body. *)
(***************************************************************************)
c_fence_line == c_fence \o <<"\n">>

\* every field rendered with str() inside the fence
render_new(metadata) ==
    [head |-> c_fence_line, yaml |-> "mapping",
     fm   |-> [k \in DOMAIN metadata |-> <<"plain", metadata[k][2]>>],
     body |-> metadata[k_book_description][2]]

\* the dumped YAML inside the fence, the description after it
render_update(yaml, book_description) ==
    [head |-> c_fence_line, yaml |-> "mapping", fm |-> yaml,
     body |-> book_description[2]]

(***************************************************************************)
(* update_existing_file / create_new_file                                  *)
(***************************************************************************)
\* a merge that keeps only what the fresh metadata brought
MergeNew_FreshOnly(current, only_in_b) == only_in_b

\* lines 191-192: for k, v in only_in_b.items(): current[k] = v
MergeNew(current, only_in_b) ==
    [k \in DOMAIN current \cup DOMAIN only_in_b |->
        IF k \in DOMAIN only_in_b THEN only_in_b[k] ELSE current[k]]

\* io: "ok", "read_fail" (open for reading raises OSError) or "write_fail"
\* (open for writing raises OSError).  ret: "warn_nofm", "noop", "updated",
\* "error_update" (False after logger.error) or "raise" (an exception that is
\* neither OSError nor YAMLError leaves the function).
\* lines 187-206, with the parsed frontmatter and its diff
UpdateFromDiff(fs, filepath, metadata, io, current, dict_diffs) ==
    IF DOMAIN dict_diffs.different_values = {} THEN [ret |-> "noop", files |-> fs]
    ELSE IF io = "write_fail" THEN [ret |-> "error_update", files |-> fs]
    ELSE [ret |-> "updated",
          files |-> [fs EXCEPT ![filepath] =
                        render_update(yaml_dump(MergeNew(current.map,
                                                         dict_diffs.only_in_b)),
                                      metadata[k_book_description])]]

\* lines 182-206, with the result of read_frontmatter
UpdateFromCurrent(fs, filepath, metadata, io, current) ==
    IF current.kind = "yaml_error" THEN [ret |-> "error_update", files |-> fs]
    ELSE IF current.kind = "none" THEN [ret |-> "warn_nofm", files |-> fs]
    ELSE IF current.kind = "scalar" THEN [ret |-> "raise", files |-> fs]
    ELSE UpdateFromDiff(fs, filepath, metadata, io, current,
                        dict_diff(current.map, metadata))

update_existing_file(fs, filepath, metadata, io) ==
    IF io = "read_fail" THEN [ret |-> "error_update", files |-> fs]
    ELSE UpdateFromCurrent(fs, filepath, metadata, io, read_frontmatter(fs[filepath]))

create_new_file(fs, filepath, metadata, io) ==
    IF io = "write_fail" THEN [ret |-> "error_create", files |-> fs]
    ELSE [ret |-> "created",
          files |-> [p \in DOMAIN fs \cup {filepath} |->
                        IF p = filepath THEN render_new(metadata) ELSE fs[p]]]

(***************************************************************************)
(* process_book_entry                                                      *)
(***************************************************************************)
\* an existence test that never finds the file
PathExists_Never(fs, filepath) == FALSE

\* filepath.exists()
PathExists(fs, filepath) == filepath \in DOMAIN fs

\* The except clause of line 251 turns every exception into "error_entry".
\* what the entry did, from the result r of the update or the creation
EntryOutcome(g, r) ==
    [action |-> IF r.ret = "raise" THEN "error_entry" ELSE r.ret,
     files  |-> r.files, path |-> g.title, meta |-> g.metadata]

\* lines 244-249, with the result g of generate_metadata
ReconcileEntry(fs, g, io) ==
    IF ~g.ok
    THEN [action |-> "error_entry", files |-> fs, path |-> <<>>, meta |-> <<>>]
    ELSE EntryOutcome(g, IF PathExists(fs, g.title)
                         THEN update_existing_file(fs, g.title, g.metadata, io)
                         ELSE create_new_file(fs, g.title, g.metadata, io))

process_book_entry(fs, entry, shelf, io) ==
    ReconcileEntry(fs, generate_metadata(entry, shelf), io)


(***************************************************************************)
(* main: the shelf loop and the entry loop                                 *)
(***************************************************************************)
\* resources/goodreads-shelves.txt: genre shelves of the to-read list, so that
\* a book can be on several of them
ShelfAt(i) ==
    s_to_read_ \o (IF i % 2 = 1 THEN <<"m", "y", "s", "t", "e", "r", "y">>
                   ELSE <<"s", "c", "i", "f", "i">>)

\* feed entries
RunTitles    == {<<"A">>, <<"A", "!">>, <<"B">>}
UserRatings  == {<<"4">>, <<"5">>, <<"x">>}
UserShelves  == {<<"o", "w", "n", "e", "d">>}
Descriptions == {<<"d">>}
Entries ==
    [title : RunTitles, user_rating : UserRatings, user_shelves : UserShelves,
     book_description : Descriptions]
IOOutcomes == {"ok", "read_fail", "write_fail"}

\* the file names (without .md) the run can address
Paths == {get_clean_book_info(t).title : t \in RunTitles}

\* notes found in the destination directory before the first run: an empty
\* file, a heading above the fenced block, an empty fenced block, a block
\* that is a scalar, a block that is not YAML, and a hand-edited legacy note
k_re_read_hyphen == c_re_read
k_note           == <<"n", "o", "t", "e">>
LegacyFm ==
    (k_rating :> <<"plain", <<"4">>>>)
    @@ (k_re_read_hyphen :> <<"plain", c_false>>)
    @@ (k_note :> <<"quoted", <<"4">>>>)
InitNotes ==
    {[head |-> <<>>, yaml |-> "mapping", fm |-> <<>>, body |-> <<>>],
     [head |-> <<"#", " ", "A", "\n">>, yaml |-> "mapping", fm |-> LegacyFm, body |-> <<"o">>],
     [head |-> c_fence_line, yaml |-> "mapping", fm |-> <<>>, body |-> <<"o">>],
     [head |-> c_fence_line, yaml |-> "scalar", fm |-> <<>>, body |-> <<"o">>],
     [head |-> c_fence_line, yaml |-> "invalid", fm |-> <<>>, body |-> <<"o">>],
     [head |-> c_fence_line, yaml |-> "mapping", fm |-> LegacyFm, body |-> <<"o">>]}

NoLast == [action |-> "none", path |-> <<>>, meta |-> <<>>]
Log(a) == [NoLast EXCEPT !.action = a]

NotFetched == 0 - 2
Skipped    == 0 - 1

Init ==
    /\ files \in UNION {[S -> InitNotes] :
                        S \in {T \in SUBSET Paths : Cardinality(T) <= MaxInitNotes}}
    /\ pc = "start"
    /\ shelf_idx = 1
    /\ entry_idx = 1
    /\ feed_len = [s \in 1..NumShelves |-> NotFetched]
    /\ attempted = <<>>
    /\ created = [p \in Paths |-> 0]
    /\ last = NoLast
    /\ ShelfIdle /\ TitleIdle

\* the control state after the body of the shelf loop ends for shelf s
NextShelfPc(s) == IF s + 1 > NumShelves THEN "done" ELSE "shelf"

\* a failure that leaves the shelf loop
AfterShelfFailure_Break(s) == NumShelves + 1

\* lines 320 and 329: continue
AfterShelfFailure(s) == s + 1

\* lines 268-304: templates, shelves file and environment are read
Startup ==
    /\ pc = "start"
    /\ pc' = "shelf"
    /\ last' = NoLast
    /\ UNCHANGED <<files, shelf_idx, entry_idx, feed_len, attempted, created,
                   shelfVars, titleVars>>

\* lines 274-276, 282-284, 300-304: a fatal start-up error, nothing is processed
StartupFatal ==
    /\ pc = "start"
    /\ pc' = "done"
    /\ last' = Log("fatal")
    /\ UNCHANGED <<files, shelf_idx, entry_idx, feed_len, attempted, created,
                   shelfVars, titleVars>>

\* line 314 with feed.bozo false: the feed has n entries
FetchFeed(n) ==
    /\ pc = "shelf"
    /\ feed_len' = [feed_len EXCEPT ![shelf_idx] = n]
    /\ last' = NoLast
    /\ IF n = 0
       THEN /\ shelf_idx' = shelf_idx + 1
            /\ pc' = NextShelfPc(shelf_idx)
            /\ UNCHANGED entry_idx
       ELSE /\ entry_idx' = 1
            /\ pc' = "entries"
            /\ UNCHANGED shelf_idx
    /\ UNCHANGED <<files, attempted, created, shelfVars, titleVars>>

\* lines 316-320: feed.bozo, warning and continue
FeedBozo ==
    /\ pc = "shelf"
    /\ feed_len' = [feed_len EXCEPT ![shelf_idx] = Skipped]
    /\ last' = Log("warn_bozo")
    /\ shelf_idx' = AfterShelfFailure(shelf_idx)
    /\ pc' = IF shelf_idx' > NumShelves THEN "done" ELSE "shelf"
    /\ UNCHANGED <<files, entry_idx, attempted, created, shelfVars, titleVars>>

\* lines 327-329: feedparser.parse raises, error and continue
FeedException ==
    /\ pc = "shelf"
    /\ feed_len' = [feed_len EXCEPT ![shelf_idx] = Skipped]
    /\ last' = Log("error_shelf")
    /\ shelf_idx' = AfterShelfFailure(shelf_idx)
    /\ pc' = IF shelf_idx' > NumShelves THEN "done" ELSE "shelf"
    /\ UNCHANGED <<files, entry_idx, attempted, created, shelfVars, titleVars>>

\* lines 322-325: one iteration of the entry loop
ProcessEntry(entry, io) ==
    /\ pc = "entries"
    /\ \E r \in {process_book_entry(files, entry, ShelfAt(shelf_idx), io)} :
           /\ files' = r.files
           /\ last' = [action |-> r.action, path |-> r.path, meta |-> r.meta]
           /\ created' = IF r.action = "created"
                         THEN [created EXCEPT ![r.path] = @ + 1] ELSE created
    /\ attempted' = Append(attempted, <<shelf_idx, entry_idx>>)
    /\ IF entry_idx = feed_len[shelf_idx]
       THEN /\ shelf_idx' = shelf_idx + 1
            /\ pc' = NextShelfPc(shelf_idx)
            /\ UNCHANGED entry_idx
       ELSE /\ entry_idx' = entry_idx + 1
            /\ UNCHANGED <<shelf_idx, pc>>
    /\ UNCHANGED <<feed_len, shelfVars, titleVars>>

\* the script is started again on the same directory
NewRun ==
    /\ pc = "done"
    /\ pc' = "start"
    /\ shelf_idx' = 1
    /\ entry_idx' = 1
    /\ feed_len' = [s \in 1..NumShelves |-> NotFetched]
    /\ attempted' = <<>>
    /\ last' = NoLast
    /\ UNCHANGED <<files, created, shelfVars, titleVars>>

Next ==
    \/ Startup
    \/ StartupFatal
    \/ \E n \in 0..MaxEntries : FetchFeed(n)
    \/ FeedBozo
    \/ FeedException
    \/ \E entry \in Entries, io \in IOOutcomes : ProcessEntry(entry, io)
    \/ NewRun

Spec == Init /\ [][Next]_vars


(***************************************************************************)
(* Properties of the pure functions                                        *)
(***************************************************************************)
\* everything after the first occurrence of the one-character sep
AfterFirst(s, sep) == SubSeq(s, Find(s, sep, 1) + 1, Len(s))

\* N, N-M, N.M or N.M-K
NumericShape(s) == \E k \in 1..3 : NumberMatches(k, s)

\* C5: for every raw title that contains a colon once the series
\* parenthetical is stripped, the returned subtitle is the trimmed text after
\* the first colon and (when not empty) does not occur in the returned title.
C5_SubtitleAfterFirstColon ==
    tpc = "parsed" =>
        LET t == SeriesStep(raw_title).book_title
        IN  Contains(t, <<":">>) =>
                /\ parsed.subtitle = Strip(AfterFirst(t, ":"))
                /\ parsed.subtitle # <<>> =>
                       ~Contains(parsed.title, parsed.subtitle)

\* C6: when the raw title fully matches one of the three series patterns
\* (the first that matches is used), the returned title is the one of the raw
\* title with the matched parenthetical cut off, the series name is the
\* punctuation-stripped trimmed group 2 and the series number is the captured
\* number text; when no pattern matches the series fields are empty.
C6_SeriesParentheticalRemoved ==
    tpc = "parsed" =>
        LET k == FirstPattern(raw_title)
        IN  IF k = 0
            THEN parsed.series_name = <<>> /\ parsed.series_number = <<>>
            ELSE LET m == MatchGroups(k, raw_title)
                 IN  /\ parsed.title = SubtitleStep(m.prefix \o <<" ">>).title
                     /\ parsed.series_name = Strip(remove_punctuation(m.g2))
                     /\ parsed.series_number = m.g3
                     /\ NumberMatches(k, parsed.series_number)

C10_CleanShelf ==
    /\ spc \in {"cleaned", "recleaned"} =>
          /\ StartsWith(shelf_in, s_to_read_) => shelf_out = s_to_read
          /\ (~StartsWith(shelf_in, s_to_read_) /\ StartsWith(shelf_in, s_read_))
                 => shelf_out = s_read
          /\ (~StartsWith(shelf_in, s_to_read_) /\ ~StartsWith(shelf_in, s_read_))
                 => shelf_out = shelf_in
    /\ spc = "recleaned" => shelf_out2 = shelf_out

C10_Witness ==
    /\ spc = "recleaned"
    /\ shelf_in = s_to_read_ \o <<"m", "y", "s", "t", "e", "r", "y">>
    /\ shelf_out = s_to_read /\ shelf_out2 = s_to_read

(***************************************************************************)
(* Properties of the reconciler and of the run                             *)
(***************************************************************************)
\* a step that is one call of process_book_entry
EntryStep == Len(attempted') = Len(attempted) + 1

\* the first line of the note is not the fence
NoFence(note) == note.head = <<>> \/ Strip(note.head) # c_fence

\* dict b laid over dict a
Overlay(a, b) == [k \in DOMAIN a \cup DOMAIN b |-> IF k \in DOMAIN b THEN b[k] ELSE a[k]]

\* C1: when the note exists, parses to a mapping and some field differs from
\* the fresh metadata, the entry is a Patch and the written frontmatter is,
\* under normalisation, the existing mapping overlaid with every new and
\* every changed field of the fresh metadata.
C1_PatchOverlaysNewAndChanged ==
    [][(/\ EntryStep
        /\ last'.path \in DOMAIN files
        /\ read_frontmatter(files[last'.path]).kind = "map"
        /\ DOMAIN dict_diff(read_frontmatter(files[last'.path]).map,
                            last'.meta).different_values # {}
        /\ last'.action # "error_update")
       => /\ last'.action = "updated"
          /\ Normalize(yaml_safe_load(files'[last'.path].fm))
               = Overlay(Normalize(yaml_safe_load(files[last'.path].fm)),
                         Normalize(last'.meta))]_vars

\* C2: when an entry reconciles a note with the metadata the previous entry
\* reconciled it with, nothing is written and the entry is a NoOp.
C2_ReconcileTwiceIsNoOp ==
    [][(/\ EntryStep
        /\ last.action \in {"created", "updated", "noop"}
        /\ last'.path = last.path
        /\ last'.meta = last.meta)
       => /\ last'.action \in {"noop", "error_update"}
          /\ files' = files]_vars

\* C3: a Patch keeps every key of the existing frontmatter that the fresh
\* metadata does not report, with its value, and no step removes a key from
\* the frontmatter of a note.
C3_ExistingOnlyFieldsSurvive ==
    [][\A p \in DOMAIN files :
          /\ p \in DOMAIN files'
          /\ DOMAIN files[p].fm \subseteq DOMAIN files'[p].fm
          /\ (EntryStep /\ last'.path = p /\ last'.action = "updated")
                => \A k \in DOMAIN files[p].fm :
                       NormKey(k) \notin DOMAIN NormKeys(last'.meta)
                           => yaml_load_scalar(files'[p].fm[k])
                                = yaml_load_scalar(files[p].fm[k])]_vars

C3_Witness ==
    /\ last.action = "updated"
    /\ last.path \in DOMAIN files
    /\ k_note \in DOMAIN files[last.path].fm
    /\ files[last.path].fm[k_note] = <<"quoted", <<"4">>>>
    /\ k_status \in DOMAIN files[last.path].fm
    /\ files[last.path].body = <<"d">>

\* C4: an entry whose note has no fence as its first line (or is empty)
\* leaves every file as it was, ends with the warning (or with the error of
\* a file that cannot be opened), and the entry loop goes on.
C4_NoFenceLeavesFileAlone ==
    [][(/\ EntryStep
        /\ last'.path \in DOMAIN files
        /\ NoFence(files[last'.path]))
       => /\ files' = files
          /\ last'.action \in {"warn_nofm", "error_update"}
          /\ attempted' = Append(attempted, <<shelf_idx, entry_idx>>)
          /\ entry_idx < feed_len[shelf_idx]
                => pc' = "entries" /\ entry_idx' = entry_idx + 1]_vars

C4_Witness ==
    /\ last.action = "warn_nofm"
    /\ last.path \in DOMAIN files
    /\ files[last.path].head = <<"#", " ", "A", "\n">>
    /\ files[last.path].fm = LegacyFm
    /\ pc = "entries"

\* the entries main hands to process_book_entry, given the length of each
\* feed (Skipped for a shelf whose feed failed)
RECURSIVE ExpectedAttempts(_, _)
ExpectedAttempts(lens, s) ==
    IF s > NumShelves THEN <<>>
    ELSE [i \in 1..(IF lens[s] > 0 THEN lens[s] ELSE 0) |-> <<s, i>>]
         \o ExpectedAttempts(lens, s + 1)

FailureActions ==
    {"error_entry", "error_update", "error_create", "warn_nofm", "warn_bozo",
     "error_shelf", "fatal"}

C9_NoteLifecycle ==
    [][/\ DOMAIN files \subseteq DOMAIN files'
       /\ \A p \in Paths : created'[p] <= 1
       /\ (EntryStep /\ last'.action = "created")
             => /\ last'.path \notin DOMAIN files
                /\ last'.path \in DOMAIN files']_vars

C9_Witness ==
    /\ last.action \in {"noop", "updated"}
    /\ last.path \in Paths
    /\ created[last.path] = 1
    /\ Len(attempted) = 1
    /\ shelf_idx = 1

====
